---- MODULE Spec2Model ----
(***************************************************************************)
(* Dataset partitioning and preprocessing guard of the transfer-learning   *)
(* toolkit: one dataset instance with its preprocessing record, its        *)
(* validation_type tag and its train / validation / test index lists, and  *)
(* the two user operations preprocess and shuffle_split.                   *)
(*                                                                         *)
(* Percentages are rationals q/Den.  Index lists are sequences over        *)
(* 0..N-1.  An optional value (Python None or a value) is a record with a  *)
(* flag `some`.                                                            *)
(***************************************************************************)
EXTENDS Integers, Sequences, FiniteSets

\* ---- bounds -------------------------------------------------------------
MaxN == 3
Den == 3
MaxSize == 2
MaxSeed == 0
MaxWorkers == 2
MaxNameLen == 5
MaxRows == 3
MaxExports == 4
MaxIpex == 2
MaxFileLen == 4

VARIABLES
    dataset_len,         \* len(self._dataset)
    defined_T,           \* boundary of the catalog's defined split, 0 when there is none
    preprocessed,        \* self._preprocessed
    validation_type,     \* self._validation_type
    train_indices,       \* self._train_indices
    validation_indices,  \* self._validation_indices
    test_indices,        \* self._test_indices
    last,                \* the call that has just run, its arguments and its outcome,
                         \* until control is back with the caller
    construction,        \* the latest call of the dataset constructor: arguments and outcome
    subject_call,        \* the latest call of get_subject_id: image_name and the id returned
    annotation,          \* the latest call of read_annotation_file: its inputs and what it returned
    split,               \* the latest call of split_images: the source tree and the target tree
    tv_model,            \* a TorchvisionImageClassificationModel: its fields and the call that has just run
    tf_model,            \* a TFModel and the saved-model directory it exports to
    grouping             \* a label folder of two files: the subject groups and the patient ids

dsvars == <<preprocessed, validation_type, train_indices, validation_indices, test_indices>>
modelvars == <<tv_model, tf_model, grouping>>
othervars == <<construction, subject_call, annotation, split, modelvars>>
vars == <<dataset_len, defined_T, preprocessed, validation_type,
          train_indices, validation_indices, test_indices, last, othervars>>

\* no constructor call is being looked at
NoConstruction == [op |-> "none"]
NoSubjectCall == [op |-> "none"]
NoAnnotation == [op |-> "none"]
NoSplit == [op |-> "none"]
NoTvModel == [op |-> "none"]
NoTfModel == [op |-> "none"]
NoGrouping == [op |-> "none"]
ModelsIdle ==
    /\ tv_model = NoTvModel
    /\ tf_model = NoTfModel
    /\ grouping = NoGrouping
UtilsIdle ==
    /\ construction = NoConstruction
    /\ subject_call = NoSubjectCall
    /\ annotation = NoAnnotation
    /\ split = NoSplit
OthersIdle == UtilsIdle /\ ModelsIdle

\* ---- optional values ----------------------------------------------------
NoIndices == [some |-> FALSE, v |-> <<>>]
SomeIndices(s) == [some |-> TRUE, v |-> s]

NoConfig == [some |-> FALSE, image_size |-> 0, batch_size |-> 0]
Config(i, b) == [some |-> TRUE, image_size |-> i, batch_size |-> b]

NoSeed == [some |-> FALSE, v |-> 0]
SeedOf(n) == [some |-> TRUE, v |-> n]

\* range(a, b) as an index list
Range(a, b) == [i \in 1..(b - a) |-> a + i - 1]

Elems(s) == {s[i] : i \in 1..Len(s)}

\* ---- argument values ----------------------------------------------------
\* a percentage argument: a float q/Den, or the integer q/Den (0 or 1)
PctFloat(q) == [isfloat |-> TRUE, q |-> q]
PctInt(n) == [isfloat |-> FALSE, q |-> n * Den]
PctArgs == {PctFloat(q) : q \in 0..Den} \cup {PctInt(n) : n \in 0..1}

\* a size argument: an int, a string such as 'foo', a float such as 20.5
SizeInt(n) == [type |-> "int", val |-> n]
SizeStr == [type |-> "str", val |-> 0]
SizeFloat == [type |-> "float", val |-> 0]
SizeArgs == {SizeInt(n) : n \in -1..MaxSize} \cup {SizeStr, SizeFloat}

SeedArgs == {NoSeed} \cup {SeedOf(n) : n \in 0..MaxSeed}

NoPct == PctFloat(0)
NoSize == SizeInt(0)

\* ---- error kinds and messages -------------------------------------------
FloatErrKind_type == "TypeError"
FloatErrKind == "ValueError"
SumErrKind_type == "TypeError"
SumErrKind == "ValueError"
SizeErrKind == "ValueError"
PreprocessedErrKind == "Exception"

FloatErrText == "Percentage arguments must be floats."
SumErrText == "Sum of percentage arguments must be less than or equal to 1."
PreprocessedErrText == "Data has already been preprocessed: "

Ok == [status |-> "ok", kind |-> "none", text |-> "", config |-> NoConfig]
Err(kind, text, config) == [status |-> "error", kind |-> kind, text |-> text, config |-> config]

Call(op, i, b, t, v, s, seed, out) ==
    [op |-> op, image_size |-> i, batch_size |-> b,
     train_pct |-> t, val_pct |-> v, test_pct |-> s, seed |-> seed, out |-> out]

\* ---- construction -------------------------------------------------------
InitCustom_defined ==
    /\ dataset_len \in (MaxN - 1)..MaxN
    /\ defined_T = 0
    /\ preprocessed = NoConfig
    /\ train_indices = NoIndices
    /\ validation_indices = NoIndices
    /\ test_indices = NoIndices
    /\ validation_type = "defined_split"

\* PyTorchCustomImageClassificationDataset.__init__: nothing preprocessed,
\* no indices, validation_type 'recall'
InitCustom ==
    /\ dataset_len \in (MaxN - 1)..MaxN
    /\ defined_T = 0
    /\ preprocessed = NoConfig
    /\ train_indices = NoIndices
    /\ validation_indices = NoIndices
    /\ test_indices = NoIndices
    /\ validation_type = "recall"

\* a catalog dataset loaded with split=['train', 'test']
InitDefinedSplit ==
    /\ dataset_len \in (MaxN - 1)..MaxN
    /\ defined_T \in 1..(dataset_len - 1)
    /\ preprocessed = NoConfig
    /\ train_indices = SomeIndices(Range(0, defined_T))
    /\ validation_indices = NoIndices
    /\ test_indices = SomeIndices(Range(defined_T, dataset_len))
    /\ validation_type = "defined_split"

NoCall == Call("none", NoSize, NoSize, NoPct, NoPct, NoPct, NoSeed, Ok)

Init ==
    /\ InitCustom \/ InitDefinedSplit
    /\ last = NoCall
    /\ OthersIdle

\* ---- preprocess ---------------------------------------------------------
PositiveInt_nonneg(a) == a.type = "int" /\ a.val >= 0
PositiveInt(a) == a.type = "int" /\ a.val >= 1

PreprocessOutcome(pre, image_size, batch_size) ==
    IF pre.some THEN Err(PreprocessedErrKind, PreprocessedErrText, pre)
    ELSE IF ~PositiveInt(batch_size) THEN Err(SizeErrKind, "batch_size", NoConfig)
    ELSE IF ~PositiveInt(image_size) THEN Err(SizeErrKind, "image_size", NoConfig)
    ELSE Ok

PreprocessedAfter_overwrite(out, pre, image_size, batch_size) ==
    IF image_size.type = "int" /\ batch_size.type = "int" /\ image_size.val >= 1 /\ batch_size.val >= 1
    THEN Config(image_size.val, batch_size.val)
    ELSE pre

\* self._preprocessed after the call
PreprocessedAfter(out, pre, image_size, batch_size) ==
    IF out.status = "ok" THEN Config(image_size.val, batch_size.val) ELSE pre

Preprocess(image_size, batch_size) ==
    LET out == PreprocessOutcome(preprocessed, image_size, batch_size) IN
    /\ last = NoCall
    /\ last' = Call("preprocess", image_size, batch_size, NoPct, NoPct, NoPct, NoSeed, out)
    /\ preprocessed' = PreprocessedAfter(out, preprocessed, image_size, batch_size)
    /\ UNCHANGED <<dataset_len, defined_T, validation_type,
                   train_indices, validation_indices, test_indices, othervars>>

\* ---- shuffle_split ------------------------------------------------------
AllFloats_no_test(t, v, s) == t.isfloat /\ v.isfloat
AllFloats(t, v, s) == t.isfloat /\ v.isfloat /\ s.isfloat

SumOk(t, v, s) == t.q + v.q + s.q <= Den

ShuffleSplitOutcome(t, v, s) ==
    IF ~AllFloats(t, v, s) THEN Err(FloatErrKind, FloatErrText, NoConfig)
    ELSE IF ~SumOk(t, v, s) THEN Err(SumErrKind, SumErrText, NoConfig)
    ELSE Ok

FloorMul_ceil(num, den, length) == (num * length + den - 1) \div den

\* int(num/den * length)
FloorMul(num, den, length) == (num * length) \div den

\* int(pct * length)
SplitSize(pct, length) == FloorMul(pct.q, Den, length)

SplitLength_train(len, T) == IF T > 0 THEN T ELSE len

\* length = len(self._dataset): the whole dataset, also after a defined split
SplitLength(len, T) == len

\* the permutations of range(n)
RandPerms(n) ==
    {p \in [1..n -> 0..(n - 1)] : \A i, j \in 1..n : p[i] = p[j] => i = j}

\* the shuffle a seed selects
SeededPermutation(seed, n) == [i \in 1..n |-> (i + seed) % n]

Shuffles(seed, n) ==
    IF seed.some THEN {SeededPermutation(seed.v, n)} ELSE RandPerms(n)

Min(a, b) == IF a <= b THEN a ELSE b

\* s[a:b] for 0 <= a <= b
Slice(s, a, b) == SubSeq(s, Min(a, Len(s)) + 1, Min(b, Len(s)))

TrainSlice(p, ts, vs, es) == Slice(p, 0, ts)
ValidationSlice_overlap(p, ts, vs, es) == Slice(p, 0, vs)
ValidationSlice(p, ts, vs, es) == Slice(p, ts, ts + vs)
TestSlice(p, ts, vs, es) == Slice(p, ts + vs, ts + vs + es)

TestIndicesFor_keep(test_pct, s) == IF test_pct.q # 0 THEN SomeIndices(s) ELSE test_indices
TestIndicesFor(test_pct, s) == IF test_pct.q # 0 THEN SomeIndices(s) ELSE NoIndices

ValidationTypeAfter_eager(out, vt) == "shuffle_split"

ValidationTypeAfter_keep(out, vt) == vt

\* self._validation_type after the call
ValidationTypeAfter(out, vt) == IF out.status = "ok" THEN "shuffle_split" ELSE vt

ShuffleSplit(train_pct, val_pct, test_pct, seed) ==
    LET out == ShuffleSplitOutcome(train_pct, val_pct, test_pct)
        length == SplitLength(dataset_len, defined_T)
        ts == SplitSize(train_pct, length)
        vs == SplitSize(val_pct, length)
        es == SplitSize(test_pct, length)
    IN
    /\ last = NoCall
    /\ last' = Call("shuffle_split", NoSize, NoSize, train_pct, val_pct, test_pct, seed, out)
    /\ validation_type' = ValidationTypeAfter(out, validation_type)
    /\ IF out.status = "ok"
       THEN \E p \in Shuffles(seed, length) :
               /\ train_indices' = SomeIndices(TrainSlice(p, ts, vs, es))
               /\ validation_indices' = SomeIndices(ValidationSlice(p, ts, vs, es))
               /\ test_indices' = TestIndicesFor(test_pct, TestSlice(p, ts, vs, es))
       ELSE UNCHANGED <<train_indices, validation_indices, test_indices>>
    /\ UNCHANGED <<dataset_len, defined_T, preprocessed, othervars>>

\* ---- specification ------------------------------------------------------
DoPreprocess == \E i, b \in SizeArgs : Preprocess(i, b)
DoShuffleSplit == \E t, v, s \in PctArgs : \E seed \in SeedArgs : ShuffleSplit(t, v, s, seed)

\* the call is synchronous: its result or its exception reaches the caller
\* before the caller makes the next call
Return ==
    /\ last # NoCall
    /\ last' = NoCall
    /\ UNCHANGED <<dataset_len, defined_T, preprocessed, validation_type,
                   train_indices, validation_indices, test_indices, othervars>>

Next == DoPreprocess \/ DoShuffleSplit \/ Return

Spec == Init /\ [][Next]_vars

\* ---- the constructor ----------------------------------------------------
\* a dataset that is not being used while another part of the toolkit runs
DatasetIdle ==
    /\ dataset_len = MaxN
    /\ defined_T = 0
    /\ preprocessed = NoConfig
    /\ train_indices = NoIndices
    /\ validation_indices = NoIndices
    /\ test_indices = NoIndices
    /\ validation_type = "recall"
    /\ last = NoCall

datasetvars == <<dataset_len, defined_T, preprocessed, validation_type,
                 train_indices, validation_indices, test_indices, last>>

DirNames == {"data", "tmp"}
ClassLists == {<<"a">>, <<"a", "b">>, <<"a", "b", "c">>}
DatasetNames == {"None", "flowers"}

\* the statements of __init__, in the order of the source
CtorProgram_late ==
    <<"default_name", "base_init", "_info", "_num_workers", "_shuffle", "_preprocessed",
      "_dataset", "_train_indices", "_validation_indices", "_test_indices",
      "ImageFolder", "check_dir", "_class_names", "_train_pct", "_val_pct", "_test_pct",
      "_validation_type", "_train_subset", "_validation_subset", "_test_subset">>

CtorProgram ==
    <<"check_dir", "default_name", "base_init", "_info", "_num_workers", "_shuffle",
      "_preprocessed", "_dataset", "_train_indices", "_validation_indices", "_test_indices",
      "ImageFolder", "_class_names", "_train_pct", "_val_pct", "_test_pct",
      "_validation_type", "_train_subset", "_validation_subset", "_test_subset">>

\* f with f[k] set to v, k added to the domain when it is new
SetField(f, k, v) == [x \in (DOMAIN f) \cup {k} |-> IF x = k THEN v ELSE f[x]]

NoFields == [x \in {} |-> "None"]

CtorStart(a) == [fields |-> NoFields, trace |-> <<>>, raised |-> "none", name |-> a.dataset_name]

\* one statement of __init__ run on the frame st, a the arguments of the call
CtorStep(st, stmt, a) ==
    LET done == [st EXCEPT !.trace = Append(@, stmt)]
        assign(k, v) == [done EXCEPT !.fields = SetField(@, k, v)]
    IN
    CASE stmt = "check_dir" ->
            IF a.exists THEN done ELSE [done EXCEPT !.raised = "FileNotFoundError"]
      [] stmt = "default_name" ->
            IF st.name = "None" THEN [done EXCEPT !.name = a.dataset_dir] ELSE done
      [] stmt = "base_init" -> assign("_dataset_dir", a.dataset_dir)
      [] stmt = "_info" -> assign("_info", <<st.name, a.dataset_dir>>)
      [] stmt = "_num_workers" -> assign("_num_workers", a.num_workers)
      [] stmt = "_shuffle" -> assign("_shuffle", a.shuffle_files)
      [] stmt = "ImageFolder" ->
            IF a.exists THEN assign("_dataset", a.classes)
            ELSE [done EXCEPT !.raised = "FileNotFoundError"]
      [] stmt = "_class_names" -> assign("_class_names", st.fields["_dataset"])
      [] stmt = "_train_pct" -> assign("_train_pct", Den)
      [] stmt = "_val_pct" -> assign("_val_pct", 0)
      [] stmt = "_test_pct" -> assign("_test_pct", 0)
      [] stmt = "_validation_type" -> assign("_validation_type", "recall")
      [] OTHER -> assign(stmt, "None")

\* the statements from the i-th on, until one raises
RECURSIVE CtorRun(_, _, _, _)
CtorRun(st, prog, i, a) ==
    IF i > Len(prog) \/ st.raised # "none" THEN st
    ELSE CtorRun(CtorStep(st, prog[i], a), prog, i + 1, a)

CtorArgs ==
    [dataset_dir : DirNames, exists : BOOLEAN, classes : ClassLists,
     dataset_name : DatasetNames, num_workers : 0..MaxWorkers, shuffle_files : BOOLEAN]

\* PyTorchCustomImageClassificationDataset(dataset_dir, dataset_name, num_workers, shuffle_files)
Construct(a) ==
    /\ construction' = [op |-> "__init__", args |-> a, end |-> CtorRun(CtorStart(a), CtorProgram, 1, a)]
    /\ UNCHANGED <<datasetvars, subject_call, annotation, split, modelvars>>

DoConstruct == \E a \in CtorArgs : Construct(a)

InitCtor == DatasetIdle /\ OthersIdle

NextCtor == DoConstruct

SpecCtor == InitCtor /\ [][NextCtor]_vars

\* ---- data_utils: strings ------------------------------------------------
\* a Python string is the sequence of its characters
Chars == {"P", "1", "_", "/"}

RECURSIVE StringsUpTo(_)
StringsUpTo(n) ==
    IF n = 0 THEN {<<>>}
    ELSE LET shorter == StringsUpTo(n - 1)
         IN shorter \cup {Append(x, c) : x \in {y \in shorter : Len(y) = n - 1}, c \in Chars}

\* the first position of the character sep in x, 0 when there is none
RECURSIVE FirstIndex(_, _, _)
FirstIndex(x, sep, i) ==
    IF i > Len(x) THEN 0
    ELSE IF x[i] = sep THEN i
    ELSE FirstIndex(x, sep, i + 1)

\* x.split(sep)
RECURSIVE Split(_, _)
Split(x, sep) ==
    LET i == FirstIndex(x, sep, 1) IN
    IF i = 0 THEN <<x>>
    ELSE <<SubSeq(x, 1, i - 1)>> \o Split(SubSeq(x, i + 1, Len(x)), sep)

\* sep.join(tokens)
RECURSIVE Join(_, _)
Join(tokens, sep) ==
    IF Len(tokens) = 0 THEN <<>>
    ELSE IF Len(tokens) = 1 THEN tokens[1]
    ELSE tokens[1] \o sep \o Join(Tail(tokens), sep)

\* tokens[:2]
FirstTwo_one(tokens) == SubSeq(tokens, 1, Min(1, Len(tokens)))
FirstTwo(tokens) == SubSeq(tokens, 1, Min(2, Len(tokens)))

\* x[1:]
DropFirst(x) == IF Len(x) = 0 THEN <<>> ELSE Tail(x)

\* tokens[-1]
LastToken(tokens) == tokens[Len(tokens)]

\* ---- data_utils: get_subject_id ----------------------------------------
get_subject_id(image_name) ==
    LET name == LastToken(Split(image_name, "/"))
        patient_id == DropFirst(Join(FirstTwo(Split(name, "_")), <<>>))
    IN patient_id

\* a file name about to be passed to get_subject_id
SubjectCallOf(image_name) == [op |-> "call", image_name |-> image_name, patient_id |-> <<>>]

GetSubjectId(image_name) ==
    /\ subject_call = SubjectCallOf(image_name)
    /\ subject_call' = [op |-> "get_subject_id", image_name |-> image_name,
                        patient_id |-> get_subject_id(image_name)]
    /\ UNCHANGED <<datasetvars, construction, annotation, split, modelvars>>

DoGetSubjectId == \E x \in StringsUpTo(MaxNameLen) : GetSubjectId(x)

InitSubjectId ==
    /\ DatasetIdle
    /\ construction = NoConstruction
    /\ subject_call \in {SubjectCallOf(x) : x \in StringsUpTo(MaxNameLen)}
    /\ annotation = NoAnnotation
    /\ split = NoSplit
    /\ ModelsIdle

NextSubjectId == DoGetSubjectId

SpecSubjectId == InitSubjectId /\ [][NextSubjectId]_vars

\* ---- data_utils: label2map and read_annotation_file ---------------------
\* Series.unique(): the distinct values in order of first appearance
RECURSIVE Unique(_)
Unique(x) ==
    IF Len(x) = 0 THEN <<>>
    ELSE LET before == Unique(SubSeq(x, 1, Len(x) - 1))
             v == x[Len(x)]
         IN IF v \in Elems(before) THEN before ELSE Append(before, v)

\* the rows of the csv file: Patient_ID, label and free text
PatientIds == {<<"1", "L">>, <<"2", "L">>}
LabelValues == {"Normal", "Benign", "Malignant"}
Texts == {<<"x">>, <<"y">>}
Rows == [pid : PatientIds, label : LabelValues, text : Texts]

RECURSIVE FramesUpTo(_)
FramesUpTo(n) ==
    IF n = 0 THEN {<<>>}
    ELSE LET shorter == FramesUpTo(n - 1)
         IN shorter \cup {Append(x, r) : x \in {y \in shorter : Len(y) = n - 1}, r \in Rows}

\* the image files found under image_data_folder
ImageNames == {<<"P", "1", "_", "L">>, <<"P", "2", "_", "L">>, <<"P", "3", "_", "L">>}

NoList == [some |-> FALSE, v |-> <<>>]
SomeList(x) == [some |-> TRUE, v |-> x]
PatientIdLists ==
    {NoList, SomeList(<<>>), SomeList(<<<<"1", "L">>>>), SomeList(<<<<"2", "L">>>>),
     SomeList(<<<<"1", "L">>, <<"2", "L">>>>)}

\* df[label_column]
LabelColumn(df) == [i \in 1..Len(df) |-> df[i].label]

\* the position of v in the sequence x of distinct values
PositionOf(x, v) == CHOOSE i \in 1..Len(x) : x[i] = v

label2map_from1(df) ==
    LET values == Unique(LabelColumn(df)) IN
    [label_map |-> [v \in Elems(values) |-> PositionOf(values, v)],
     reverse_label_map |-> [i \in 0..(Len(values) - 1) |-> values[i + 1]]]

label2map(df) ==
    LET values == Unique(LabelColumn(df)) IN
    [label_map |-> [v \in Elems(values) |-> PositionOf(values, v) - 1],
     reverse_label_map |-> [i \in 0..(Len(values) - 1) |-> values[i + 1]]]

\* df[df[patient_id].isin(ids)]
RowsIn(df, ids) == LET keep(r) == r.pid \in ids IN SelectSeq(df, keep)

\* df[df[patient_id].isin([i])][data_column].to_list()
RECURSIVE SubjectTexts_rev(_, _)
SubjectTexts_rev(df, i) ==
    IF Len(df) = 0 THEN <<>>
    ELSE IF df[1].pid = i THEN Append(SubjectTexts_rev(Tail(df), i), df[1].text)
    ELSE SubjectTexts_rev(Tail(df), i)

SubjectTexts(df, i) == LET rows == RowsIn(df, {i}) IN [k \in 1..Len(rows) |-> rows[k].text]

\* df[df[patient_id] == i][label_column].unique()
SubjectLabels(df, i) == LET rows == RowsIn(df, {i}) IN Unique([k \in 1..Len(rows) |-> rows[k].label])

\* the body of the loop over the subjects: out is df_new and the warnings
\* issued so far
AggregateStep_skip(out, df, i, has_list) ==
    LET text == Join(SubjectTexts(df, i), <<" ">>)
        temp_labels == SubjectLabels(df, i)
    IN IF Len(temp_labels) = 1
       THEN [out EXCEPT !.table = Append(@, [label |-> temp_labels[1], text |-> text, pid |-> i])]
       ELSE out

AggregateStep(out, df, i, has_list) ==
    LET text == Join(SubjectTexts(df, i), <<" ">>)
        temp_labels == SubjectLabels(df, i)
    IN IF Len(temp_labels) = 1
       THEN [out EXCEPT !.table = Append(@, [label |-> temp_labels[1], text |-> text, pid |-> i])]
       ELSE IF has_list
       THEN [out EXCEPT !.table = Append(@, [label |-> "Normal", text |-> text, pid |-> i])]
       ELSE out   \* Warning(...) builds an exception object and drops it

RECURSIVE Aggregate(_, _, _, _, _)
Aggregate(out, df, subjects, k, has_list) ==
    IF k > Len(subjects) THEN out
    ELSE Aggregate(AggregateStep(out, df, subjects[k], has_list), df, subjects, k + 1, has_list)

read_annotation_file(df_csv, patient_id_list, image_name_list) ==
    LET maps == label2map(df_csv)
        ids == IF patient_id_list.some THEN Elems(patient_id_list.v)
               ELSE {get_subject_id(x) : x \in image_name_list}
        df == RowsIn(df_csv, ids)
        subjects == Unique([k \in 1..Len(df) |-> df[k].pid])
        out == Aggregate([table |-> <<>>, warnings |-> <<>>], df, subjects, 1, patient_id_list.some)
    IN [table |-> out.table, warnings |-> out.warnings,
        label_map |-> maps.label_map, reverse_label_map |-> maps.reverse_label_map]

AnnotationCallOf(df, l, imgs) == [op |-> "call", df |-> df, patient_id_list |-> l, images |-> imgs]

ReadAnnotationFile(df, l, imgs) ==
    /\ annotation = AnnotationCallOf(df, l, imgs)
    /\ annotation' = [op |-> "read_annotation_file", df |-> df, patient_id_list |-> l,
                      images |-> imgs, ret |-> read_annotation_file(df, l, imgs)]
    /\ UNCHANGED <<datasetvars, construction, subject_call, split, modelvars>>

\* a call passes a patient_id_list, or passes None and has the image folder listed
AnnotationInputs(df) ==
    {AnnotationCallOf(df, l, {}) : l \in PatientIdLists \ {NoList}}
    \cup {AnnotationCallOf(df, NoList, imgs) : imgs \in SUBSET ImageNames}

\* the pending call runs with the arguments it was made with
DoReadAnnotationFile ==
    /\ annotation.op = "call"
    /\ ReadAnnotationFile(annotation.df, annotation.patient_id_list, annotation.images)

InitAnnotation ==
    /\ DatasetIdle
    /\ construction = NoConstruction
    /\ subject_call = NoSubjectCall
    /\ \E df \in FramesUpTo(MaxRows) : annotation \in AnnotationInputs(df)
    /\ split = NoSplit
    /\ ModelsIdle

NextAnnotation == DoReadAnnotationFile

SpecAnnotation == InitAnnotation /\ [][NextAnnotation]_vars

\* ---- data_utils: split_images -------------------------------------------
\* the label folders of src_folder and the image files a label folder can hold
Labels == {"Benign", "Malignant"}
FileNames ==
    {<<"P", "1", "_", "L", "_", "a">>, <<"P", "1", "_", "L", "_", "b">>,
     <<"P", "2", "_", "L", "_", "a">>, <<"P", "3", "_", "L", "_", "a">>}

\* the code points of the characters of the file names
Ord(c) ==
    CASE c = "1" -> 49 [] c = "2" -> 50 [] c = "3" -> 51 [] c = "L" -> 76
      [] c = "P" -> 80 [] c = "_" -> 95 [] c = "a" -> 97 [] c = "b" -> 98

\* a < b for two strings
RECURSIVE StrLess(_, _)
StrLess(a, b) ==
    IF Len(b) = 0 THEN FALSE
    ELSE IF Len(a) = 0 THEN TRUE
    ELSE IF a[1] = b[1] THEN StrLess(Tail(a), Tail(b))
    ELSE Ord(a[1]) < Ord(b[1])

\* os.listdir followed by fns.sort()
RECURSIVE SortedFiles(_)
SortedFiles(S) ==
    IF S = {} THEN <<>>
    ELSE LET m == CHOOSE x \in S : \A y \in S : x = y \/ StrLess(x, y)
         IN <<m>> \o SortedFiles(S \ {m})

\* '_'.join(x.split('_')[:2])
SubjectRoot_one(x) == Split(x, "_")[1]

SubjectRoot(x) == Join(FirstTwo(Split(x, "_")), <<"_">>)

\* fns_dict[k]: the files whose root is k, in the order of fns
FilesOf(fns, k) == LET same(x) == SubjectRoot(x) = k IN SelectSeq(fns, same)

\* sklearn's train_test_split(keys, test_size=0.2, random_state=100): n_test is
\* ceil(0.2 * n) and n_train the rest; it raises when n_train is 0. perm is
\* the permutation of 0..n-1 that RandomState(100) yields for n samples.
NTest(n) == (n + 4) \div 5
TrainTestSplit(keys, perm) ==
    LET n == Len(keys)
        n_test == NTest(n)
        n_train == n - n_test
    IN IF n = 0 \/ n_train = 0
       THEN [status |-> "error", train |-> <<>>, test |-> <<>>]
       ELSE [status |-> "ok",
             train |-> [i \in 1..n_train |-> keys[perm[n_test + i] + 1]],
             test |-> [i \in 1..n_test |-> keys[perm[i] + 1]]]

\* the files copy_files_src_to_tgt copies for the samples, in the order of
\* the copies
RECURSIVE CopiedFiles_first(_, _)
CopiedFiles_first(samples, fns) ==
    IF Len(samples) = 0 THEN <<>>
    ELSE <<FilesOf(fns, samples[1])[1]>> \o CopiedFiles_first(Tail(samples), fns)

RECURSIVE CopiedFiles(_, _)
CopiedFiles(samples, fns) ==
    IF Len(samples) = 0 THEN <<>>
    ELSE FilesOf(fns, samples[1]) \o CopiedFiles(Tail(samples), fns)

\* os.makedirs(tgt_dir, exist_ok=True) and then the copies into tgt_dir
\* (shutil.copy2 from src_dir/_file to tgt_dir/_file)
CopyInto(side, label, files) ==
    <<[e |-> "makedirs", side |-> side, label |-> label, from |-> <<>>, to |-> <<>>]>>
    \o [i \in 1..Len(files) |->
           [e |-> "copy", side |-> side, label |-> label, from |-> files[i], to |-> files[i]]]

EmptyTree == [side \in {"train", "test"} |-> [label \in Labels |-> {}]]

\* the loop over the label folders, from the k-th on; it ends at the first
\* label for which train_test_split raises
RECURSIVE SplitLabels(_, _, _, _, _, _)
SplitLabels(src, order, perms, k, tgt, log) ==
    IF k > Len(order)
    THEN [status |-> "ok", kind |-> "none", tgt |-> tgt, log |-> log, completed |-> order]
    ELSE LET label == order[k]
             fns == SortedFiles(src[label])
             keys == Unique([i \in 1..Len(fns) |-> SubjectRoot(fns[i])])
             parts == TrainTestSplit(keys, perms[Len(keys)])
             train_files == CopiedFiles(parts.train, fns)
             test_files == CopiedFiles(parts.test, fns)
         IN IF parts.status = "error"
            THEN [status |-> "error", kind |-> "ValueError", tgt |-> tgt, log |-> log,
                  completed |-> SubSeq(order, 1, k - 1)]
            ELSE SplitLabels(src, order, perms, k + 1,
                     [tgt EXCEPT !["train"][label] = @ \cup Elems(train_files),
                                 !["test"][label] = @ \cup Elems(test_files)],
                     log \o CopyInto("train", label, train_files)
                         \o CopyInto("test", label, test_files))

split_images(src, order, perms) == SplitLabels(src, order, perms, 1, EmptyTree, <<>>)

\* the source trees: every label folder holds some of the files
SourceTrees == [Labels -> SUBSET FileNames]
\* the orders os.listdir can return the label folders in
LabelOrders == {<<"Benign", "Malignant">>, <<"Malignant", "Benign">>}
\* what RandomState(100).permutation(n) can be, for every n that occurs
KeyCounts == 0..Cardinality({SubjectRoot(x) : x \in FileNames})
PermTables ==
    {t \in [KeyCounts -> UNION {RandPerms(n) : n \in KeyCounts}] :
        \A n \in KeyCounts : t[n] \in RandPerms(n)}

SplitCallOf(src, order, perms) == [op |-> "call", src |-> src, order |-> order, perms |-> perms]

SplitImages(src, order, perms) ==
    /\ split = SplitCallOf(src, order, perms)
    /\ split' = [op |-> "split_images", src |-> src, order |-> order, perms |-> perms,
                 out |-> split_images(src, order, perms)]
    /\ UNCHANGED <<datasetvars, construction, subject_call, annotation, modelvars>>

\* the pending call runs with the arguments it was made with
DoSplitImages ==
    /\ split.op = "call"
    /\ SplitImages(split.src, split.order, split.perms)

InitSplit ==
    /\ DatasetIdle
    /\ construction = NoConstruction
    /\ subject_call = NoSubjectCall
    /\ annotation = NoAnnotation
    /\ \E src \in SourceTrees, order \in LabelOrders, perms \in PermTables :
           split = SplitCallOf(src, order, perms)
    /\ ModelsIdle

NextSplit == DoSplitImages

SpecSplit == InitSplit /\ [][NextSplit]_vars

\* ---- data_utils: the subject groups and the patient ids of one folder ----
\* the names a file of a label folder can have
FolderFileNames == {x \in StringsUpTo(MaxFileLen) : x # <<>> /\ "/" \notin Elems(x)}

\* fns_dict of split_images for the files of a label folder: the keys in
\* the order of insertion and the files of each key
SubjectGroups(files) ==
    LET fns == SortedFiles(files)
        keys == Unique([i \in 1..Len(fns) |-> SubjectRoot(fns[i])])
    IN [keys |-> keys, fns_dict |-> [k \in Elems(keys) |-> FilesOf(fns, k)]]

\* create_patient_id_list for a folder tree with this one label folder:
\* np.unique of the subject ids of its files
create_patient_id_list(files) == SortedFiles({get_subject_id(f) : f \in files})

\* the two views of one label folder: the groups split_images forms and the
\* patient id list the annotation side is given
GroupFolder ==
    /\ grouping.op = "call"
    /\ grouping' = [op |-> "grouped", files |-> grouping.files,
                    groups |-> SubjectGroups(grouping.files),
                    patient_id_list |-> create_patient_id_list(grouping.files)]
    /\ UNCHANGED <<datasetvars, construction, subject_call, annotation, split, tv_model, tf_model>>

InitGrouping ==
    /\ DatasetIdle
    /\ UtilsIdle
    /\ tv_model = NoTvModel
    /\ tf_model = NoTfModel
    /\ \E a, b \in FolderFileNames : a # b /\ grouping = [op |-> "call", files |-> {a, b}]

SpecGrouping == InitGrouping /\ [][GroupFolder]_vars

\* ---- tf_model: TFModel.export --------------------------------------------
\* tf_model holds self._model (loaded or not), the entries of
\* output_dir/<model_name>, the directory numbers the exports so far wrote
\* to, and the call that has just run
NewTfModel ==
    [op |-> "TFModel", _model |-> FALSE, entries |-> {}, exported |-> <<>>,
     last |-> [op |-> "none", status |-> "ok", kind |-> "none", dir |-> 0]]

\* load_from_directory, or a training run: self._model is set
LoadFromDirectory ==
    /\ tf_model.op = "TFModel"
    /\ ~tf_model._model
    /\ tf_model' = [tf_model EXCEPT !._model = TRUE,
                       !.last = [op |-> "load_from_directory", status |-> "ok", kind |-> "none", dir |-> 0]]
    /\ UNCHANGED <<datasetvars, construction, subject_call, annotation, split, tv_model, grouping>>

\* the number of the directory export saves to, given the entries present
ExportNumber(entries) == IF Cardinality(entries) # 0 THEN Cardinality(entries) + 1 ELSE 1

Export ==
    /\ tf_model.op = "TFModel"
    /\ Len(tf_model.exported) < MaxExports
    /\ IF tf_model._model
       THEN LET n == ExportNumber(tf_model.entries) IN
            tf_model' = [tf_model EXCEPT !.entries = @ \cup {n},
                            !.exported = Append(@, n),
                            !.last = [op |-> "export", status |-> "ok", kind |-> "none", dir |-> n]]
       ELSE tf_model' = [tf_model EXCEPT
                            !.last = [op |-> "export", status |-> "error", kind |-> "ValueError", dir |-> 0]]
    /\ UNCHANGED <<datasetvars, construction, subject_call, annotation, split, tv_model, grouping>>

\* the user removes one of the numbered directories
RemoveExport(n) ==
    /\ tf_model.op = "TFModel"
    /\ n \in tf_model.entries
    /\ tf_model' = [tf_model EXCEPT !.entries = @ \ {n},
                       !.last = [op |-> "remove", status |-> "ok", kind |-> "none", dir |-> n]]
    /\ UNCHANGED <<datasetvars, construction, subject_call, annotation, split, tv_model, grouping>>

InitExport ==
    /\ DatasetIdle
    /\ UtilsIdle
    /\ tv_model = NoTvModel
    /\ grouping = NoGrouping
    /\ tf_model = NewTfModel

NextExport ==
    \/ LoadFromDirectory
    \/ Export
    \/ \E n \in 1..(MaxExports + 1) : RemoveExport(n)

SpecExport == InitExport /\ [][NextExport]_vars

\* ---- tv_model: TorchvisionImageClassificationModel -----------------------
\* Python None of a string or bool argument is the string "None"; a bool is
\* "True" or "False".
NoModel == [some |-> FALSE, dense |-> <<>>, outputs |-> 0, ipex |-> 0]

\* the fields of a model constructed with device=d
NewObject(d) ==
    [_device |-> d, _enable_auto_mixed_precision |-> "None", _distributed |-> FALSE,
     _model |-> NoModel, _optimizer |-> [some |-> FALSE, ipex |-> 0],
     _num_classes |-> [some |-> FALSE, v |-> 0]]

\* the device argument of train, evaluate and predict
DeviceArgs == {"None", "cpu", "hpu"}

\* the device selection of train, evaluate and predict
SelectDevice_trust(_device, device, is_hpu_available) ==
    IF device \in {"hpu", "cpu"} THEN device ELSE _device

SelectDevice(_device, device, is_hpu_available) ==
    LET passed == IF device = "hpu" /\ ~is_hpu_available THEN "cpu"
                  ELSE IF device = "hpu" /\ is_hpu_available THEN device
                  ELSE IF device = "cpu" THEN device
                  ELSE _device
    IN IF passed = "hpu" /\ ~is_hpu_available THEN "cpu" ELSE passed

\* enable_auto_mixed_precision after the None case is resolved
ResolveAmp(enable_auto_mixed_precision, cpu_type) ==
    IF enable_auto_mixed_precision # "None" THEN enable_auto_mixed_precision
    ELSE IF cpu_type = "unknown" THEN "None"
    ELSE IF cpu_type = "SPR" THEN "True" ELSE "False"

\* extra_layers values: None, a list of ints and floats, or a string
Item(isint, n) == [isint |-> isint, n |-> n]
NoLayers == [kind |-> "None", truthy |-> FALSE, v |-> <<>>]
ListOf(v) == [kind |-> "list", truthy |-> Len(v) > 0, v |-> v]
ExtraLayersArgs ==
    {NoLayers, ListOf(<<>>), ListOf(<<Item(TRUE, 4)>>),
     ListOf(<<Item(TRUE, 8), Item(TRUE, 4)>>), ListOf(<<Item(TRUE, 4), Item(FALSE, 2)>>),
     [kind |-> "str", truthy |-> TRUE, v |-> <<>>]}

\* the check of extra_layers raises TypeError
ExtraLayersError(extra_layers) ==
    /\ extra_layers.truthy
    /\ \/ extra_layers.kind # "list"
       \/ \E i \in 1..Len(extra_layers.v) : ~extra_layers.v[i].isint

\* the sizes of the dense layers _get_hub_model appends before the output layer
DenseLayers(extra_layers) ==
    IF extra_layers.truthy THEN [i \in 1..Len(extra_layers.v) |-> extra_layers.v[i].n] ELSE <<>>

Event(e, obj) == [e |-> e, ipex |-> obj._model.ipex]

\* ipex.optimize(self._model, optimizer=self._optimizer)
IpexOptimize(obj) ==
    [obj EXCEPT !._model.ipex = @ + 1, !._optimizer.ipex = @ + 1]

\* f is the running call: the object, the events so far
GetHubModel(f, num_classes, ipex_optimize, extra_layers) ==
    LET built ==
            [f.obj EXCEPT !._model = [some |-> TRUE, dense |-> DenseLayers(extra_layers),
                                      outputs |-> num_classes, ipex |-> 0],
                          !._optimizer = [some |-> TRUE, ipex |-> 0]]
        f1 == IF f.obj._model.some THEN f
              ELSE IF ipex_optimize /\ ~f.obj._distributed
              THEN [obj |-> IpexOptimize(built),
                    events |-> f.events \o <<Event("download", built), Event("ipex.optimize", built)>>]
              ELSE [obj |-> built, events |-> Append(f.events, Event("download", built))]
    IN [f1 EXCEPT !.obj._num_classes = [some |-> TRUE, v |-> num_classes]]

\* the part of train after the model is there: the checkpoint, then
\* ipex.optimize when it was held back
LoadCheckpoint(f, ipex_optimize, distributed) ==
    LET loaded == [f EXCEPT !.events = Append(@, Event("load_state_dict", f.obj))]
    IN IF ipex_optimize /\ ~distributed
       THEN [obj |-> IpexOptimize(loaded.obj),
             events |-> Append(loaded.events, Event("ipex.optimize", loaded.obj))]
       ELSE loaded

\* the try / except Exception / finally block of a distributed train
FitDistributed_nofinally(f, export_raises, fit_raises) ==
    IF export_raises
    THEN [obj |-> f.obj, status |-> "ok", kind |-> "none",
          events |-> f.events \o <<Event("export_for_distributed", f.obj)>>]
    ELSE [obj |-> f.obj, status |-> "ok", kind |-> "none",
          events |-> f.events \o <<Event("export_for_distributed", f.obj),
                                   Event("_fit_distributed", f.obj)>>
                     \o (IF fit_raises THEN <<>>
                         ELSE <<Event("cleanup_saved_objects_for_distributed", f.obj)>>)]

FitDistributed(f, export_raises, fit_raises) ==
    [obj |-> f.obj, status |-> "ok", kind |-> "none",
     events |-> f.events
                \o <<Event("export_for_distributed", f.obj)>>
                \o (IF export_raises THEN <<>> ELSE <<Event("_fit_distributed", f.obj)>>)
                \o <<Event("cleanup_saved_objects_for_distributed", f.obj)>>]

\* self._model.train() and self._fit(...): an error of _fit reaches the caller
Fit(f, fit_raises) ==
    [obj |-> f.obj, status |-> IF fit_raises THEN "error" ELSE "ok",
     kind |-> IF fit_raises THEN "Exception" ELSE "none",
     events |-> Append(f.events, Event("_fit", f.obj))]

\* train(dataset, output_dir, ...) on the model m with the arguments a
TrainOutcome(m, a) ==
    LET selected == [m.obj EXCEPT
                       !._device = SelectDevice(m.obj._device, a.device, m.is_hpu_available),
                       !._enable_auto_mixed_precision =
                           ResolveAmp(a.enable_auto_mixed_precision, m.cpu_type),
                       !._distributed = a.distributed]
        ipex_optimize == a.ipex_optimize /\ ~(selected._device = "hpu" /\ m.is_hpu_available)
        cleared == IF selected._num_classes = [some |-> TRUE, v |-> a.dataset_classes]
                   THEN selected ELSE [selected EXCEPT !._model = NoModel]
        optimize == ipex_optimize /\ ~a.initial_checkpoints
        got == GetHubModel([obj |-> cleared, events |-> <<>>], a.dataset_classes, optimize,
                           a.extra_layers)
        ready == IF a.initial_checkpoints THEN LoadCheckpoint(got, ipex_optimize, a.distributed)
                 ELSE got
    IN IF ~a.valid_inputs
       THEN [obj |-> m.obj, status |-> "error", kind |-> "TypeError", events |-> <<>>]
       ELSE IF ExtraLayersError(a.extra_layers)
       THEN [obj |-> selected, status |-> "error", kind |-> "TypeError", events |-> <<>>]
       ELSE IF a.distributed THEN FitDistributed(ready, a.export_raises, a.fit_raises)
       ELSE Fit(ready, a.fit_raises)

\* the arguments of train; export_raises and fit_raises say whether
\* export_for_distributed, _fit_distributed or _fit raise in this call
TrainArgs ==
    {a \in [dataset_classes : {2, 3}, initial_checkpoints : BOOLEAN,
            extra_layers : ExtraLayersArgs, ipex_optimize : BOOLEAN, distributed : BOOLEAN,
            enable_auto_mixed_precision : {"None", "True"}, device : DeviceArgs,
            valid_inputs : {TRUE}, export_raises : BOOLEAN, fit_raises : BOOLEAN] :
        /\ a.export_raises => (a.distributed /\ ~a.fit_raises)}
    \cup {[dataset_classes |-> 2, initial_checkpoints |-> FALSE, extra_layers |-> NoLayers,
           ipex_optimize |-> TRUE, distributed |-> FALSE, enable_auto_mixed_precision |-> "None",
           device |-> "None", valid_inputs |-> FALSE, export_raises |-> FALSE,
           fit_raises |-> FALSE]}

NoTvCall == [op |-> "none"]

Train(a) ==
    /\ tv_model.op = "model"
    /\ tv_model.last = NoTvCall
    /\ LET out == TrainOutcome(tv_model, a) IN
           /\ out.obj._model.ipex <= MaxIpex
           /\ tv_model' = [tv_model EXCEPT
                  !.obj = out.obj,
                  !.last = [op |-> "train", args |-> a, status |-> out.status,
                            kind |-> out.kind, events |-> out.events]]
    /\ UNCHANGED <<datasetvars, construction, subject_call, annotation, split, tf_model, grouping>>

\* the dataset evaluate is given: its length and its validation and test
\* subsets, each None or a subset of some length
EvalDatasets ==
    [len : {4},
     validation_subset : {[some |-> FALSE, len |-> 0], [some |-> TRUE, len |-> 1]},
     test_subset : {[some |-> FALSE, len |-> 0], [some |-> TRUE, len |-> 2]}]

\* the number of samples a loader of the dataset yields
LoaderSamples(dataset, loader) ==
    IF loader = "test_loader" THEN dataset.test_subset.len
    ELSE IF loader = "validation_loader" THEN dataset.validation_subset.len
    ELSE dataset.len

\* eval_loader and data_length of evaluate
EvalSelection_whole(dataset, use_test_set) ==
    IF use_test_set
    THEN IF dataset.test_subset.some
         THEN [status |-> "ok", eval_loader |-> "test_loader", data_length |-> dataset.len]
         ELSE [status |-> "error", eval_loader |-> "none", data_length |-> 0]
    ELSE IF dataset.validation_subset.some
    THEN [status |-> "ok", eval_loader |-> "validation_loader", data_length |-> dataset.len]
    ELSE [status |-> "ok", eval_loader |-> "data_loader", data_length |-> dataset.len]

EvalSelection(dataset, use_test_set) ==
    IF use_test_set
    THEN IF dataset.test_subset.some
         THEN [status |-> "ok", eval_loader |-> "test_loader",
               data_length |-> dataset.test_subset.len]
         ELSE [status |-> "error", eval_loader |-> "none", data_length |-> 0]
    ELSE IF dataset.validation_subset.some
    THEN [status |-> "ok", eval_loader |-> "validation_loader",
          data_length |-> dataset.validation_subset.len]
    ELSE [status |-> "ok", eval_loader |-> "data_loader", data_length |-> dataset.len]

Evaluate(a) ==
    /\ tv_model.op = "model"
    /\ tv_model.last = NoTvCall
    /\ LET sel == EvalSelection(a.dataset, a.use_test_set) IN
       tv_model' = [tv_model EXCEPT
           !.obj._enable_auto_mixed_precision =
               ResolveAmp(a.enable_auto_mixed_precision, tv_model.cpu_type),
           !.obj._device = SelectDevice(tv_model.obj._device, a.device, tv_model.is_hpu_available),
           !.last = [op |-> "evaluate", args |-> a, status |-> sel.status,
                     kind |-> IF sel.status = "ok" THEN "none" ELSE "ValueError",
                     text |-> IF sel.status = "ok" THEN "" ELSE "No test subset is defined",
                     eval_loader |-> sel.eval_loader,
                     iterated |-> IF sel.status = "ok"
                                  THEN LoaderSamples(a.dataset, sel.eval_loader) ELSE 0,
                     data_length |-> sel.data_length]]
    /\ UNCHANGED <<datasetvars, construction, subject_call, annotation, split, tf_model, grouping>>

Predict(a) ==
    /\ tv_model.op = "model"
    /\ tv_model.last = NoTvCall
    /\ IF a.return_type \notin {"class", "probabilities", "scores"}
       THEN tv_model' = [tv_model EXCEPT
                !.last = [op |-> "predict", args |-> a, status |-> "error", kind |-> "ValueError"]]
       ELSE tv_model' = [tv_model EXCEPT
                !.obj._enable_auto_mixed_precision =
                    ResolveAmp(a.enable_auto_mixed_precision, tv_model.cpu_type),
                !.obj._device =
                    SelectDevice(tv_model.obj._device, a.device, tv_model.is_hpu_available),
                !.last = [op |-> "predict", args |-> a, status |-> "ok", kind |-> "none"]]
    /\ UNCHANGED <<datasetvars, construction, subject_call, annotation, split, tf_model, grouping>>

\* control is back with the caller
TvReturn ==
    /\ tv_model.op = "model"
    /\ tv_model.last # NoTvCall
    /\ tv_model' = [tv_model EXCEPT !.last = NoTvCall]
    /\ UNCHANGED <<datasetvars, construction, subject_call, annotation, split, tf_model, grouping>>

InitTv ==
    /\ DatasetIdle
    /\ UtilsIdle
    /\ tf_model = NoTfModel
    /\ grouping = NoGrouping
    \* the device kwarg is stored as given; cpu_type is PlatformUtil().cpu_type,
    \* "unknown" when reading it raises
    /\ \E d \in {"cpu", "hpu", "cuda"}, h \in BOOLEAN, c \in {"SPR", "other", "unknown"} :
           tv_model = [op |-> "model", is_hpu_available |-> h, cpu_type |-> c,
                       obj |-> NewObject(d), last |-> NoTvCall]

NextTv ==
    \/ \E a \in TrainArgs : Train(a)
    \/ \E a \in [dataset : EvalDatasets, use_test_set : BOOLEAN,
                  enable_auto_mixed_precision : {"None", "True"}, device : DeviceArgs] :
           Evaluate(a)
    \/ \E a \in [return_type : {"class", "labels"},
                  enable_auto_mixed_precision : {"None", "True"}, device : DeviceArgs] :
           Predict(a)
    \/ TvReturn

SpecTv == InitTv /\ [][NextTv]_vars

\* ---- properties ---------------------------------------------------------
IndexSet(x) == IF x.some THEN {x.v[i] : i \in 1..Len(x.v)} ELSE {}
Count(x) == IF x.some THEN Len(x.v) ELSE 0
NoRepeat(x) == \A i, j \in 1..Count(x) : x.v[i] = x.v[j] => i = j

SplitCalled == last.op = "shuffle_split"
SplitDone == last.op = "shuffle_split" /\ last.out.status = "ok"
ArgsAreFloats == last.train_pct.isfloat /\ last.val_pct.isfloat /\ last.test_pct.isfloat
ArgsSum == last.train_pct.q + last.val_pct.q + last.test_pct.q

C3_FloatError ==
    (SplitCalled /\ ~ArgsAreFloats) =>
        /\ last.out.status = "error"
        /\ last.out.text = "Percentage arguments must be floats."

C3_Witness ==
    /\ SplitCalled
    /\ last.train_pct = PctInt(1) /\ last.val_pct = PctInt(0) /\ last.test_pct = PctFloat(0)
    /\ last.out.text = "Percentage arguments must be floats."

\* C4: shuffle_split fails with a ValueError whose message is "Sum of
\* percentage arguments must be less than or equal to 1." for every triple of
\* floats whose sum is greater than 1.
C4_SumError ==
    (SplitCalled /\ ArgsAreFloats /\ ArgsSum > Den) =>
        /\ last.out.status = "error"
        /\ last.out.kind = "ValueError"
        /\ last.out.text = "Sum of percentage arguments must be less than or equal to 1."

C4_Witness ==
    /\ SplitCalled /\ ArgsAreFloats /\ ArgsSum = Den + 1
    /\ last.out.kind = "ValueError"
    /\ last.out.text = "Sum of percentage arguments must be less than or equal to 1."

PreprocessCalled == last.op = "preprocess"
ArgIsPositiveInt(a) == a.type = "int" /\ a.val > 0

\* C2: once preprocess has succeeded, every later preprocess call, whatever
\* its arguments, fails with the message "Data has already been preprocessed:
\* {config}" carrying the first recorded configuration, and the recorded
\* configuration never changes or goes back to None.
C2_PreprocessOnce ==
    [][preprocessed.some =>
          /\ preprocessed' = preprocessed
          /\ (last'.op = "preprocess" =>
                 /\ last'.out.status = "error"
                 /\ last'.out.text = "Data has already been preprocessed: "
                 /\ last'.out.config = preprocessed)]_vars

C2_Witness ==
    /\ PreprocessCalled
    /\ last.out.text = "Data has already been preprocessed: "
    /\ last.out.config = preprocessed
    /\ last.image_size = SizeInt(2) /\ preprocessed.image_size = 1
    /\ last.batch_size = SizeStr

\* C5 (as stated): a non-float percentage gives a TypeError, float
\* percentages summing to more than 1 give a ValueError.
C5_TypeErrorKind ==
    /\ (SplitCalled /\ ~ArgsAreFloats) => last.out.kind = "TypeError"
    /\ (SplitCalled /\ ArgsAreFloats /\ ArgsSum > Den) => last.out.kind = "ValueError"

\* C5 (amended): both validation errors of shuffle_split, for a non-float
\* percentage and for floats summing to more than 1, are ValueErrors.
C5_ValueErrorKind ==
    /\ (SplitCalled /\ ~ArgsAreFloats) => last.out.kind = "ValueError"
    /\ (SplitCalled /\ ArgsAreFloats /\ ArgsSum > Den) => last.out.kind = "ValueError"

C5_Witness ==
    /\ SplitCalled /\ ~last.train_pct.isfloat /\ ArgsSum <= Den
    /\ last.out.status = "error" /\ last.out.kind = "ValueError"

\* C6: a preprocess or shuffle_split call that fails leaves the preprocessing
\* record, the validation_type tag and the three index lists as they were.
C6_FailureKeepsState ==
    [][(last'.op \in {"preprocess", "shuffle_split"} /\ last'.out.status = "error")
          => UNCHANGED dsvars]_vars

C6_Witness ==
    /\ SplitCalled /\ last.out.status = "error"
    /\ validation_type = "recall"
    /\ ~preprocessed.some
    /\ ~train_indices.some

IsFloorOf(n, pct, length) == n * Den <= pct.q * length /\ pct.q * length < (n + 1) * Den

\* C8: after a successful shuffle_split on a dataset of N samples the train
\* subset has floor(train_pct * N) samples, the validation subset
\* floor(val_pct * N), and the test subset floor(test_pct * N) when test_pct > 0
\* and is None when test_pct is 0; 0.75/0.25/0.0 of 50000 give 37500/12500 and
\* 0.6/0.2/0.2 of 60000 give 36000/12000/12000.
C8_SubsetSizes ==
    /\ SplitDone =>
          /\ train_indices.some /\ IsFloorOf(Len(train_indices.v), last.train_pct, dataset_len)
          /\ validation_indices.some /\ IsFloorOf(Len(validation_indices.v), last.val_pct, dataset_len)
          /\ last.test_pct.q = 0 => ~test_indices.some
          /\ last.test_pct.q > 0 =>
                (test_indices.some /\ IsFloorOf(Len(test_indices.v), last.test_pct, dataset_len))
    /\ FloorMul(75, 100, 50000) = 37500 /\ FloorMul(25, 100, 50000) = 12500
    /\ FloorMul(6, 10, 60000) = 36000 /\ FloorMul(2, 10, 60000) = 12000

C8_Witness ==
    /\ SplitDone
    /\ (last.train_pct.q * dataset_len) % Den # 0
    /\ Len(train_indices.v) >= 1
    /\ last.test_pct.q = 0 /\ ~test_indices.some

C11_SplitSetsTag ==
    [][(last'.op = "shuffle_split" /\ last'.out.status = "ok") =>
          /\ validation_type' = "shuffle_split"
          /\ preprocessed' = preprocessed]_vars

C11_Witness ==
    /\ SplitDone
    /\ defined_T > 0
    /\ validation_type = "shuffle_split"
    /\ preprocessed = Config(1, 2)

\* the three subsets a shuffle p of range(n) gives for the percentages of a call
SubsetsOf(p, c, n) ==
    LET ts == (c.train_pct.q * n) \div Den
        vs == (c.val_pct.q * n) \div Den
        es == (c.test_pct.q * n) \div Den
    IN <<SomeIndices(SubSeq(p, 1, ts)),
         SomeIndices(SubSeq(p, ts + 1, ts + vs)),
         IF c.test_pct.q = 0 THEN NoIndices ELSE SomeIndices(SubSeq(p, ts + vs + 1, ts + vs + es))>>

DefaultState ==
    /\ ~preprocessed.some
    /\ ~train_indices.some /\ ~validation_indices.some /\ ~test_indices.some
    /\ validation_type = "recall"

\* C13: a newly constructed custom dataset has no preprocessing record, no
\* train, validation or test indices and validation_type 'recall', and stays
\* so until a preprocess or a shuffle_split call succeeds.
C13_DefaultUntilSuccess ==
    /\ defined_T = 0 => DefaultState
    /\ [][(defined_T = 0 /\ DefaultState
             /\ ~(last'.op \in {"preprocess", "shuffle_split"} /\ last'.out.status = "ok"))
          => DefaultState']_vars

C13_Witness ==
    /\ defined_T = 0 /\ DefaultState
    /\ last.op = "preprocess" /\ last.out.status = "error"

Constructed == construction.op = "__init__"

\* C14: constructing the dataset with a dataset_dir that does not exist raises
\* FileNotFoundError before any field of the dataset is created and before the
\* image folder is read.
C14_MissingDirRaisesFirst ==
    (Constructed /\ ~construction.args.exists) =>
        /\ construction.end.raised = "FileNotFoundError"
        /\ DOMAIN construction.end.fields = {}
        /\ \A i \in 1..Len(construction.end.trace) : construction.end.trace[i] # "ImageFolder"

C14_Witness ==
    /\ Constructed /\ ~construction.args.exists
    /\ construction.end.raised = "FileNotFoundError"
    /\ construction.end.trace = <<"check_dir">>

\* the positions of the character c in x
Positions(x, c) == {i \in 1..Len(x) : x[i] = c}
Least(S) == CHOOSE i \in S : \A j \in S : i <= j
Greatest(S) == CHOOSE i \in S : \A j \in S : i >= j

\* what C20 says get_subject_id returns: the part after the last '/', up to its
\* second '_', without its first '_' and without its first character
SubjectKeyOf(x) ==
    LET slashes == Positions(x, "/")
        base == IF slashes = {} THEN x ELSE SubSeq(x, Greatest(slashes) + 1, Len(x))
        us == Positions(base, "_")
        i1 == Least(us)
        later == us \ {i1}
        joined == IF us = {} THEN base
                  ELSE IF later = {} THEN SubSeq(base, 1, i1 - 1) \o SubSeq(base, i1 + 1, Len(base))
                  ELSE SubSeq(base, 1, i1 - 1) \o SubSeq(base, i1 + 1, Least(later) - 1)
    IN SubSeq(joined, 2, Len(joined))

\* C20: get_subject_id takes the file name after the last '/', splits it on
\* '_', concatenates the first two tokens without a separator and drops the
\* first character of the concatenation, for every file name, also one with
\* fewer than two '_'-separated tokens.
C20_SubjectId ==
    subject_call.op = "get_subject_id" =>
        subject_call.patient_id = SubjectKeyOf(subject_call.image_name)

C20_Witness ==
    /\ subject_call.op = "get_subject_id"
    /\ subject_call.image_name = <<"/", "P", "1", "_", "1">>
    /\ subject_call.patient_id = <<"1", "1">>


\* ---- read_annotation_file and label2map ---------------------------------
AnnotationDone == annotation.op = "read_annotation_file"

\* the subjects the call keeps: patient_id_list, or the subjects of the images
KeptSubjects ==
    IF annotation.patient_id_list.some THEN Elems(annotation.patient_id_list.v)
    ELSE {get_subject_id(x) : x \in annotation.images}

RowsOfSubject(p) == {k \in 1..Len(annotation.df) : annotation.df[k].pid = p}
LabelsOfSubject(p) == {annotation.df[k].label : k \in RowsOfSubject(p)}
TableRowsOf(p) == {k \in 1..Len(annotation.ret.table) : annotation.ret.table[k].pid = p}
FirstRowWith(v) == Least({k \in 1..Len(annotation.df) : annotation.df[k].label = v})

\* the texts of subject p, rows 1..k of the file, left to right with one
\* space between two texts
RECURSIVE SpaceJoined(_, _)
SpaceJoined(p, k) ==
    IF k = 0 THEN <<>>
    ELSE LET before == SpaceJoined(p, k - 1) IN
         IF annotation.df[k].pid # p THEN before
         ELSE IF RowsOfSubject(p) \cap 1..(k - 1) = {} THEN annotation.df[k].text
         ELSE before \o <<" ">> \o annotation.df[k].text

\* C16: label2map gives one entry per distinct value of the column, numbered
\* 0..K-1 in order of first appearance, and reverse_label_map is the inverse
\* of label_map in both directions.
C16_LabelMapInverse ==
    AnnotationDone =>
        LET values == {annotation.df[k].label : k \in 1..Len(annotation.df)}
            K == Cardinality(values)
            label_map == annotation.ret.label_map
            reverse_label_map == annotation.ret.reverse_label_map
        IN /\ DOMAIN label_map = values
           /\ DOMAIN reverse_label_map = 0..(K - 1)
           /\ \A v \in values : label_map[v] \in 0..(K - 1) /\ reverse_label_map[label_map[v]] = v
           /\ \A i \in 0..(K - 1) : label_map[reverse_label_map[i]] = i
           /\ \A v, w \in values : (label_map[v] < label_map[w]) <=> (FirstRowWith(v) < FirstRowWith(w))

C16_Witness ==
    /\ AnnotationDone
    /\ Len(annotation.df) = 3
    /\ annotation.df[1].label = "Malignant"
    /\ annotation.df[2].label = "Benign"
    /\ annotation.df[3].label = "Malignant"
    /\ annotation.ret.label_map["Malignant"] = 0
    /\ annotation.ret.reverse_label_map[1] = "Benign"

\* C17: without a patient_id_list, a subject whose rows carry more than one
\* label is reported to the caller by a warning and is left out of the table.
C17_ConflictWarned ==
    (AnnotationDone /\ ~annotation.patient_id_list.some) =>
        \A p \in KeptSubjects :
            Cardinality(LabelsOfSubject(p)) > 1 =>
                /\ annotation.ret.warnings # <<>>
                /\ TableRowsOf(p) = {}

\* C18: the table has at most one row per subject, and a subject whose rows
\* all carry one label has a row with that label and with its texts joined by
\* single spaces in the order of the rows.
C18_OneRowPerSubject ==
    AnnotationDone =>
        /\ \A j, k \in 1..Len(annotation.ret.table) :
               annotation.ret.table[j].pid = annotation.ret.table[k].pid => j = k
        /\ \A p \in KeptSubjects :
               Cardinality(LabelsOfSubject(p)) = 1 =>
                   \E k \in TableRowsOf(p) :
                       /\ annotation.ret.table[k].label \in LabelsOfSubject(p)
                       /\ annotation.ret.table[k].text = SpaceJoined(p, Len(annotation.df))

C18_Witness ==
    /\ AnnotationDone
    /\ \E p \in KeptSubjects :
           /\ Cardinality(RowsOfSubject(p)) = 2
           /\ Cardinality(LabelsOfSubject(p)) = 1
           /\ \E k \in TableRowsOf(p) : annotation.ret.table[k].text = <<"y", " ", "x">>
    /\ Len(annotation.ret.table) = 2

\* C19: with a patient_id_list, a listed subject whose rows carry more than
\* one label is in the table, with the label "Normal", and the call returns.
C19_ConflictKeptAsNormal ==
    (AnnotationDone /\ annotation.patient_id_list.some) =>
        \A p \in KeptSubjects :
            Cardinality(LabelsOfSubject(p)) > 1 =>
                \E k \in TableRowsOf(p) : annotation.ret.table[k].label = "Normal"

C19_Witness ==
    /\ AnnotationDone
    /\ annotation.patient_id_list.some
    /\ \E p \in KeptSubjects :
           /\ LabelsOfSubject(p) = {"Benign", "Malignant"}
           /\ \E k \in TableRowsOf(p) : annotation.ret.table[k].label = "Normal"


\* ---- split_images ---------------------------------------------------------
SplitCompleted == split.op = "split_images" /\ split.out.status = "ok"

\* the files found under one side of the target tree, over all its label folders
FilesUnder(side) == UNION {split.out.tgt[side][label] : label \in Labels}

\* C15: after split_images completes, no subject has files under both
\* tgt_folder/train and tgt_folder/test, whatever label folders they are in.
C15_NoSubjectStraddles ==
    SplitCompleted =>
        \A x \in FilesUnder("train"), y \in FilesUnder("test") : SubjectRoot(x) # SubjectRoot(y)


\* ---- TFModel.export -------------------------------------------------------
\* C24: an export of a loaded model writes to a numbered directory, 1 the
\* first time, that no earlier export wrote to, whatever directories were
\* removed in between; an export of a model never loaded raises ValueError
\* and writes nothing.
C24_ExportsUnique ==
    /\ tf_model.exported # <<>> => tf_model.exported[1] = 1
    /\ \A i, j \in 1..Len(tf_model.exported) :
           tf_model.exported[i] = tf_model.exported[j] => i = j
    /\ (tf_model.last.op = "export" /\ ~tf_model._model) =>
           (tf_model.last.kind = "ValueError" /\ tf_model.exported = <<>>)


\* ---- TorchvisionImageClassificationModel ---------------------------------
TvCalled(op) == tv_model.op = "model" /\ tv_model.last # NoTvCall /\ tv_model.last.op = op
TvObject == tv_model.obj
TvArgs == tv_model.last.args

\* a call is starting: the step from the caller to the state right after it
TvCallStep(op) ==
    /\ tv_model.op = "model"
    /\ tv_model.last = NoTvCall
    /\ tv_model'.last # NoTvCall
    /\ tv_model'.last.op = op

\* an extra_layers argument that is given and is not a list of integers
NotListOfInts(x) ==
    \/ x.kind = "str"
    \/ x.kind = "list" /\ \E i \in 1..Len(x.v) : ~x.v[i].isint

\* C21: a train call whose extra_layers is not a list of integers raises
\* TypeError and leaves _device, _enable_auto_mixed_precision, _distributed,
\* _model, _optimizer and _num_classes as they were before the call.
C21_BadLayersKeepState ==
    [][(TvCallStep("train") /\ tv_model'.last.args.valid_inputs
            /\ NotListOfInts(tv_model'.last.args.extra_layers))
        => /\ tv_model'.last.status = "error"
           /\ tv_model'.last.kind = "TypeError"
           /\ tv_model'.obj._device = tv_model.obj._device
           /\ tv_model'.obj._enable_auto_mixed_precision = tv_model.obj._enable_auto_mixed_precision
           /\ tv_model'.obj._distributed = tv_model.obj._distributed
           /\ tv_model'.obj._model = tv_model.obj._model
           /\ tv_model'.obj._optimizer = tv_model.obj._optimizer
           /\ tv_model'.obj._num_classes = tv_model.obj._num_classes]_vars

DeviceSelected(call) ==
    \/ call.op = "train" /\ call.args.valid_inputs
    \/ call.op = "evaluate"
    \/ call.op = "predict" /\ call.status = "ok"

TvDeviceStep ==
    /\ tv_model.op = "model"
    /\ tv_model.last = NoTvCall
    /\ tv_model'.last # NoTvCall
    /\ DeviceSelected(tv_model'.last)

\* C23 as stated: without HPU, _device is 'cpu' after the device selection of
\* every train, evaluate and predict call; with HPU and device None the
\* device is kept.
C23_AlwaysCpu ==
    [][TvDeviceStep =>
        /\ ~tv_model.is_hpu_available => tv_model'.obj._device = "cpu"
        /\ (tv_model.is_hpu_available /\ tv_model'.last.args.device = "None") =>
               tv_model'.obj._device = tv_model.obj._device]_vars

\* C23 as amended: without HPU, _device is never 'hpu' after the device
\* selection, and it is 'cpu' when the device before the call was 'cpu' or
\* 'hpu' or the call passes 'cpu' or 'hpu'; with device None and HPU
\* available, the device is kept.
C23_NeverHpuWithoutHpu ==
    [][TvDeviceStep =>
        /\ ~tv_model.is_hpu_available =>
               /\ tv_model'.obj._device # "hpu"
               /\ (tv_model.obj._device \in {"cpu", "hpu"}
                     \/ tv_model'.last.args.device \in {"cpu", "hpu"})
                  => tv_model'.obj._device = "cpu"
        /\ (tv_model.is_hpu_available /\ tv_model'.last.args.device = "None") =>
               tv_model'.obj._device = tv_model.obj._device]_vars

C23_Witness ==
    /\ TvCalled("evaluate")
    /\ ~tv_model.is_hpu_available
    /\ TvArgs.device = "hpu"
    /\ TvObject._device = "cpu"

\* C25: after every successful train call the head has one dense layer per
\* entry of extra_layers, in order and with those sizes, and an output layer
\* of len(dataset.class_names) outputs, and _num_classes is that number.
C25_HeadFollowsArguments ==
    (TvCalled("train") /\ tv_model.last.status = "ok") =>
        /\ TvObject._model.some
        /\ Len(TvObject._model.dense) = Len(TvArgs.extra_layers.v)
        /\ \A i \in 1..Len(TvArgs.extra_layers.v) :
               TvObject._model.dense[i] = TvArgs.extra_layers.v[i].n
        /\ TvObject._model.outputs = TvArgs.dataset_classes
        /\ TvObject._num_classes = [some |-> TRUE, v |-> TvArgs.dataset_classes]

EventPositions(e) == {i \in 1..Len(tv_model.last.events) : tv_model.last.events[i].e = e}

\* C26: in a train call with initial_checkpoints, the state dicts are loaded
\* into a model ipex.optimize has not been applied to, ipex.optimize comes
\* only after the load, and no model has ipex.optimize applied twice.
C26_LoadBeforeOptimize ==
    (TvCalled("train") /\ TvArgs.initial_checkpoints) =>
        /\ \A i \in EventPositions("load_state_dict") : tv_model.last.events[i].ipex = 0
        /\ EventPositions("load_state_dict") # {} =>
               \A i \in EventPositions("ipex.optimize"), j \in EventPositions("load_state_dict") :
                   j < i
        /\ TvObject._model.ipex <= 1

SplitReturned == split.op = "split_images"
CopyEvents(side, label) ==
    {i \in 1..Len(split.out.log) :
        /\ split.out.log[i].e = "copy"
        /\ split.out.log[i].side = side
        /\ split.out.log[i].label = label}

\* C30: for every label folder split_images has completed, each file of
\* src_folder/<label> is under exactly one of train/<label> and test/<label>,
\* under its own name; every copy into a label's directory is of a file of
\* that label; and the directory was made before the first copy into it.
C30_EveryFileOnce ==
    SplitReturned =>
        \A k \in 1..Len(split.out.completed) :
            LET label == split.out.completed[k] IN
            /\ split.out.tgt["train"][label] \cup split.out.tgt["test"][label] = split.src[label]
            /\ split.out.tgt["train"][label] \cap split.out.tgt["test"][label] = {}
            /\ \A side \in {"train", "test"} :
                   /\ split.out.tgt[side][label]
                          = {split.out.log[i].to : i \in CopyEvents(side, label)}
                   /\ \A i \in CopyEvents(side, label) :
                          /\ split.out.log[i].to = split.out.log[i].from
                          /\ split.out.log[i].from \in split.src[label]
                          /\ \E j \in 1..(i - 1) :
                                 /\ split.out.log[j].e = "makedirs"
                                 /\ split.out.log[j].side = side
                                 /\ split.out.log[j].label = label

C30_Witness ==
    /\ SplitReturned
    /\ split.out.status = "error"
    /\ Len(split.out.completed) = 1
    /\ \E label \in Labels :
           /\ split.out.completed[1] = label
           /\ Cardinality(split.src[label]) = 4
           /\ Cardinality(split.out.tgt["train"][label]) = 3
           /\ Cardinality(split.out.tgt["test"][label]) = 1

\* ---- read_annotation_file: labels and label_map ---------------------------
\* C29: every label in the table read_annotation_file returns is a key of
\* the label_map of the same call.
C29_TableLabelsInMap ==
    AnnotationDone =>
        \A k \in 1..Len(annotation.ret.table) :
            annotation.ret.table[k].label \in DOMAIN annotation.ret.label_map


\* ---- subject groups and patient ids ---------------------------------------
Grouped == grouping.op = "grouped"
OneGroup == Len(grouping.groups.keys) = 1
OneId == Len(grouping.patient_id_list) = 1

\* the first token of a file name, when the name has a '_'
HasUnderscore(x) == Positions(x, "_") # {}
FirstTokenLen(x) == Least(Positions(x, "_")) - 1

\* C28 as stated: two files of a label folder are in one subject group of
\* split_images exactly when get_subject_id gives both the same id.
C28_GroupsAreIds == Grouped => (OneGroup <=> OneId)

\* C28 as amended: two files in one subject group have the same id; two
\* files with the same id are in one subject group when both names have a
\* '_', start with the same character, not '_', and have first tokens of the
\* same length.
C28_GroupsRefineIds ==
    Grouped =>
        /\ OneGroup => OneId
        /\ (OneId /\ \A x, y \in grouping.files :
                        /\ HasUnderscore(x) /\ HasUnderscore(y)
                        /\ x[1] = y[1] /\ x[1] # "_"
                        /\ FirstTokenLen(x) = FirstTokenLen(y))
           => OneGroup

C28_Witness ==
    /\ Grouped
    /\ OneId
    /\ OneGroup
    /\ grouping.patient_id_list[1] # <<>>
    /\ \A x \in grouping.files : HasUnderscore(x) /\ x[1] = "P"

====
